---------------------------- MODULE Spec2Model ----------------------------
(***************************************************************************)
(* A model of dibber's build scheduler (dibber/main.py) and of the image   *)
(* resolver and executor it drives (dibber/images.py).                     *)
(*                                                                         *)
(* Four specifications share the definitions: Spec is a whole run of       *)
(* _build_all_images, SpecSort is sort_images over every configuration,    *)
(* SpecBuild is one call of build_image taken step by step, and SpecMerge  *)
(* is merge_manifests run repeatedly over the two persisted files.         *)
(*                                                                         *)
(* Strings are sequences of atoms.  An atom is a TLA+ string that stands   *)
(* for a run of characters the code never looks into; whatever the code    *)
(* splits on, joins with or searches for (" ", "/", the "sha256:" prefix,  *)
(* the words of the export markers) is a sequence of whole atoms.  The     *)
(* atoms of image names and versions are single characters, ordered by     *)
(* their code points, so that list.sort() on "image/version" strings is    *)
(* computed character by character as Python computes it.                  *)
(***************************************************************************)
EXTENDS Integers, Sequences, FiniteSets, TLC

----------------------------------------------------------------------------
(* Bounds of the model *)

\* the priority configuration holds at most MaxConfigLen entries
MaxConfigLen == 3
\* ... which reference at most MaxRefs identifiers in all
MaxRefs == 3

----------------------------------------------------------------------------
(* Strings *)

\* code points of the characters identifiers are made of (str comparison)
Ord == [c \in {"-", "/", "1", "2", "a", "b"} |->
          CASE c = "-" -> 45 [] c = "/" -> 47 [] c = "1" -> 49
            [] c = "2" -> 50 [] c = "a" -> 97 [] c = "b" -> 98]

\* s < t for two str: the first differing character decides, a proper prefix
\* is smaller
StrLess(s, t) ==
  \E i \in 1..(Len(t)) :
     /\ \A j \in 1..(i - 1) : j <= Len(s) /\ s[j] = t[j]
     /\ \/ i = Len(s) + 1
        \/ i <= Len(s) /\ Ord[s[i]] < Ord[t[i]]

\* list.sort() of a list of str: ascending, by insertion
RECURSIVE InsertSorted(_, _)
InsertSorted(sorted, x) ==
  IF sorted = << >> THEN << x >>
  ELSE IF StrLess(x, Head(sorted)) THEN << x >> \o sorted
  ELSE << Head(sorted) >> \o InsertSorted(Tail(sorted), x)

\* (variant: the list is left in the dict's order)
ListSortNone(l) == l

RECURSIVE ListSort(_)
ListSort(l) ==
  IF l = << >> THEN << >>
  ELSE InsertSorted(ListSort(SubSeq(l, 1, Len(l) - 1)), l[Len(l)])

\* x in l
InList(x, l) == \E i \in 1..Len(l) : l[i] = x

\* l.remove(x) where x in l: the first occurrence goes
ListRemove(l, x) ==
  LET i == CHOOSE k \in 1..Len(l) : l[k] = x /\ \A j \in 1..(k - 1) : l[j] # x
  IN  SubSeq(l, 1, i - 1) \o SubSeq(l, i + 1, Len(l))

\* s.split(sep, maxsplit=1)
SplitOnce(s, sep) ==
  IF InList(sep, s)
  THEN LET i == CHOOSE k \in 1..Len(s) : s[k] = sep /\ \A j \in 1..(k - 1) : s[j] # sep
       IN  << SubSeq(s, 1, i - 1), SubSeq(s, i + 1, Len(s)) >>
  ELSE << s >>

----------------------------------------------------------------------------
(* The discovered images and the priority configuration *)

\* directory names find_images can meet: images "a" and "a-b", versions "1", "2"
Universe == { << <<"a">>, <<"1">> >>, << <<"a">>, <<"2">> >>,
              << <<"a", "-", "b">>, <<"1">> >> }

\* f"{image}/{version}"
Ident(image, version) == image \o <<"/">> \o version

UniverseIds == { Ident(p[1], p[2]) : p \in Universe }

\* one item of conf.priority_builds: a str (ids = <<the identifier>>) or a list
StrEntry(id) == [isstr |-> TRUE, ids |-> << id >>]
ListEntry(l) == [isstr |-> FALSE, ids |-> l]

\* the lists of exactly n identifiers
RECURSIVE IdLists(_)
IdLists(n) ==
  IF n = 0 THEN { << >> }
  ELSE { << id >> \o l : id \in UniverseIds, l \in IdLists(n - 1) }

\* the entries that reference at most r identifiers
Entries(r) ==
  (IF r >= 1 THEN { StrEntry(id) : id \in UniverseIds } ELSE {})
    \cup { ListEntry(l) : l \in UNION { IdLists(k) : k \in 0..r } }

\* the configurations of at most n entries referencing at most r identifiers
RECURSIVE Configs(_, _)
Configs(n, r) ==
  IF n = 0 THEN { << >> }
  ELSE { << >> } \cup
       UNION { { << e >> \o c : c \in Configs(n - 1, r - Len(e.ids)) } : e \in Entries(r) }

----------------------------------------------------------------------------
(* images.py: sort_images *)

\* lines 57-60: the identifiers of the dict, in the dict's (arbitrary) order
RECURSIVE Flatten(_)
Flatten(images_) ==
  IF images_ = {} THEN << >>
  ELSE LET p == CHOOSE q \in images_ : TRUE
       IN  << Ident(p[1], p[2]) >> \o Flatten(images_ \ {p})

\* every identifier the configuration names, in the order the loops visit them
RECURSIVE ConfigRefs(_)
ConfigRefs(cfg) ==
  IF cfg = << >> THEN << >> ELSE Head(cfg).ids \o ConfigRefs(Tail(cfg))

\* (variant: membership is checked but nothing is removed)
RemoveAllKeep(images, refs) ==
  [err |-> \E k \in 1..Len(refs) : ~InList(refs[k], images), images |-> images]

\* (variant: an identifier that is not in the list is skipped)
RECURSIVE RemoveAllLenient(_, _)
RemoveAllLenient(images, refs) ==
  IF refs = << >> THEN [err |-> FALSE, images |-> images]
  ELSE IF ~InList(Head(refs), images) THEN RemoveAllLenient(images, Tail(refs))
  ELSE RemoveAllLenient(ListRemove(images, Head(refs)), Tail(refs))

\* lines 62-79: images.remove() of each referenced identifier; ValueError on
\* the first one that is not (or no longer) in the list
RECURSIVE RemoveAll(_, _)
RemoveAll(images, refs) ==
  IF refs = << >> THEN [err |-> FALSE, images |-> images]
  ELSE IF ~InList(Head(refs), images) THEN [err |-> TRUE, images |-> images]
  ELSE RemoveAll(ListRemove(images, Head(refs)), Tail(refs))

ImageConf(priority, image) == [priority |-> priority, image |-> image]

\* (variant: the priority advances with every identifier, not every entry)
RECURSIVE PrioritisedPerItem(_, _)
PrioritisedPerItem(cfg, priority) ==
  IF cfg = << >> THEN << >>
  ELSE [i \in 1..Len(Head(cfg).ids) |->
           ImageConf(priority + i - 1, SplitOnce(Head(cfg).ids[i], "/"))]
         \o PrioritisedPerItem(Tail(cfg), priority + Len(Head(cfg).ids))

\* lines 81-107: entry number p of the configuration gives its identifiers
\* priority p
RECURSIVE Prioritised(_, _)
Prioritised(cfg, priority) ==
  IF cfg = << >> THEN << >>
  ELSE [i \in 1..Len(Head(cfg).ids) |->
           ImageConf(priority, SplitOnce(Head(cfg).ids[i], "/"))]
         \o Prioritised(Tail(cfg), priority + 1)

\* lines 109-111: what is left gets the priority the loop ended with
Remaining(images, priority) ==
  [i \in 1..Len(images) |-> ImageConf(priority, SplitOnce(images[i], "/"))]

sort_images(images_, priority_builds) ==
  LET images  == ListSort(Flatten(images_))
      removed == RemoveAll(images, ConfigRefs(priority_builds))
  IN  IF removed.err
      THEN [err |-> TRUE, result |-> << >>]
      ELSE [err |-> FALSE,
            result |-> Prioritised(priority_builds, 1)
                         \o Remaining(removed.images, Len(priority_builds) + 1)]

----------------------------------------------------------------------------
(* Texts.  A text is kept as its pieces between newlines, text.split("\n"):  *)
(* a text that ends in a newline has an empty last piece.                    *)

\* a text without a newline
Text(s) == << s >>

\* os.linesep
linesep == << << >>, << >> >>

\* t + u
TextCat(t, u) ==
  SubSeq(t, 1, Len(t) - 1) \o << t[Len(t)] \o u[1] >> \o Tail(u)

\* text.splitlines(): a final newline opens no further line
splitlines(t) == IF t[Len(t)] = << >> THEN SubSeq(t, 1, Len(t) - 1) ELSE t

\* sep.join(parts)
RECURSIVE Join(_, _)
Join(parts, sep) ==
  IF parts = << >> THEN << >>
  ELSE IF Len(parts) = 1 THEN parts[1]
  ELSE parts[1] \o << sep >> \o Join(Tail(parts), sep)

\* s.split(sep)
RECURSIVE Split(_, _)
Split(s, sep) ==
  IF InList(sep, s)
  THEN LET parts == SplitOnce(s, sep) IN << parts[1] >> \o Split(parts[2], sep)
  ELSE << s >>

\* sub in s
Contains(s, sub) ==
  \E i \in 1..(Len(s) - Len(sub) + 1) : \A j \in 1..Len(sub) : s[i + j - 1] = sub[j]

Whitespace == {" ", "\t"}

\* s.strip()
RECURSIVE Strip(_)
Strip(s) ==
  IF s = << >> THEN s
  ELSE IF s[1] \in Whitespace THEN Strip(Tail(s))
  ELSE IF s[Len(s)] \in Whitespace THEN Strip(SubSeq(s, 1, Len(s) - 1))
  ELSE s

\* os.path.basename(s)
RECURSIVE basename(_)
basename(s) == IF InList("/", s) THEN basename(SplitOnce(s, "/")[2]) ELSE s

----------------------------------------------------------------------------
(* images.py: the executor *)

\* conf.docker_user
docker_user == <<"u">>

docker_image(image) == docker_user \o <<"/">> \o image

\* docker_tag(image, tag) with local=False
docker_tag(image, tag) == docker_image(image) \o <<":">> \o tag

\* lines 134-145: two arguments per context
RECURSIVE get_build_contexts(_)
get_build_contexts(contexts) ==
  IF contexts = << >> THEN << >>
  ELSE LET parts      == SplitOnce(Head(contexts), " ")
           image      == parts[1]
           sha256     == parts[2]
           base_image == basename(image)
       IN  << <<"--build-context">>,
              base_image \o <<"=docker-image://">> \o image \o <<"@">> \o sha256 >>
             \o get_build_contexts(Tail(contexts))

\* lines 190-199: the first build-tool invocation
FirstBuildCmd(image, version, contexts, local_only, uniq_id) ==
  IF local_only
  THEN << <<"docker">>, <<"build">>, Ident(image, version),
          <<"-t">>, docker_tag(image, version) >>
  ELSE << <<"docker">>, <<"buildx">>, <<"build">>, Ident(image, version),
          <<"-t">>, image \o <<":">> \o uniq_id >>
         \o get_build_contexts(contexts)
         \o << <<"--output">>, <<"type=docker">>, <<"--progress=plain">> >>

\* (variant: the push invocation is given no build context)
PushBuildCmdNoContexts(image, version, contexts) ==
  << <<"docker">>, <<"buildx">>, <<"build">>, Ident(image, version),
     <<"-t">>, docker_image(image),
     <<"--progress=plain">>,
     <<"--output">>, <<"push-by-digest=true,type=image,push=true">> >>

\* lines 208-213: the second one, which pushes
PushBuildCmd(image, version, contexts) ==
  << <<"docker">>, <<"buildx">>, <<"build">>, Ident(image, version),
     <<"-t">>, docker_image(image) >>
    \o get_build_contexts(contexts)
    \o << <<"--progress=plain">>,
          <<"--output">>, <<"push-by-digest=true,type=image,push=true">> >>

\* lines 116-131
add_image_tag(image, uniq_id, tag, target_image) ==
  << <<"docker">>, <<"tag">>, image \o <<":">> \o uniq_id, target_image \o <<":">> \o tag >>
remove_image_tag(image, tag) == << <<"docker">>, <<"rmi">>, image \o <<":">> \o tag >>
push_image(image, tag) == << <<"docker">>, <<"push">>, image \o <<":">> \o tag >>

\* lines 240-253: the tag, push and remove invocations that follow the digest
TagCmds(image, version, uniq_id, tags) ==
  << add_image_tag(image, uniq_id, version, image) >>
    \o [i \in 1..Len(tags) |-> add_image_tag(image, uniq_id, tags[i], image)]
    \o << add_image_tag(image, uniq_id, uniq_id, docker_image(image)),
          push_image(docker_image(image), uniq_id),
          remove_image_tag(image, uniq_id),
          remove_image_tag(docker_image(image), uniq_id) >>

\* every external invocation of one build, in order, if none of them fails
BuildCmds(image, version, contexts, local_only, uniq_id, tags) ==
  IF local_only
  THEN << FirstBuildCmd(image, version, contexts, TRUE, uniq_id) >>
  ELSE << FirstBuildCmd(image, version, contexts, FALSE, uniq_id),
          PushBuildCmd(image, version, contexts) >>
         \o TagCmds(image, version, uniq_id, tags)

\* lines 201-217: the captured output, each command line followed by what the
\* tool printed
BuildOutput(image, version, contexts, local_only, uniq_id, out1, out2) ==
  LET first == TextCat(TextCat(TextCat(
                 Text(Join(FirstBuildCmd(image, version, contexts, local_only, uniq_id), " ")),
                 linesep), out1), TextCat(linesep, linesep))
  IN  IF local_only THEN first
      ELSE TextCat(TextCat(TextCat(first,
             Text(Join(PushBuildCmd(image, version, contexts), " "))), linesep), out2)

ExportMarkers == { <<" ", "exporting", " ", "manifest", " ">>,
                   <<" ", "writing", " ", "image", " ">> }

\* lines 225-228: the first word of the line that starts with "sha256:"
RECURSIVE FirstShaWord(_)
FirstShaWord(words) ==
  IF words = << >> THEN << >>
  ELSE IF Head(words) # << >> /\ Head(words)[1] = "sha256:" THEN Strip(Head(words))
  ELSE FirstShaWord(Tail(words))

\* (variant: a later marker line with such a word overrides an earlier one)
RECURSIVE FindShaLast(_)
FindShaLast(lines) ==
  IF lines = << >> THEN << >>
  ELSE LET later == FindShaLast(Tail(lines))
       IN  IF later # << >> THEN later
           ELSE IF \E m \in ExportMarkers : Contains(Head(lines), m)
                THEN FirstShaWord(Split(Head(lines), " "))
                ELSE << >>

\* lines 222-230: the first marker line that has such a word decides
RECURSIVE FindSha(_)
FindSha(lines) ==
  IF lines = << >> THEN << >>
  ELSE LET sha256 == IF \E m \in ExportMarkers : Contains(Head(lines), m)
                     THEN FirstShaWord(Split(Head(lines), " "))
                     ELSE << >>
       IN  IF sha256 # << >> THEN sha256 ELSE FindSha(Tail(lines))

find_sha256(output) == FindSha(splitlines(output))


\* config.tags of a version's config.yaml (get_config, lines 275-279)
TagChoices == { << >>, << <<"latest">> >> }

\* what the build tool prints for the local-load invocation ...
LoadOutputs ==
  { << <<"#12", " ", "writing", " ", "image", " ", "sha256:", "aaa", " ", "done">>, << >> >>,
    << <<"#1", " ", "load", " ", "build", " ", "definition">>, << >> >> }
\* ... and for the push invocation
PushOutputs ==
  { << <<"#9", " ", "exporting", " ", "manifest", " ", "sha256:", "bbb", " ", "done">>, << >> >>,
    << <<"#1", " ", "load", " ", "build", " ", "definition">>, << >> >> }

\* the number of external invocations of a full build that nothing stops
FullCmdCount(tags) == Len(BuildCmds(<<"a">>, <<"1">>, << >>, FALSE, <<"u1">>, tags))

\* What the outside world answers to one build: the tags of config.yaml, the
\* output of the two build invocations, and the invocation at which run()
\* raises (0: none does).  A failing invocation is paired with outputs that
\* carry a digest: without a digest the build has raised before it reaches
\* the third invocation, and the first two stop it whatever was printed.
Envs ==
  { [tags |-> t, out1 |-> o1, out2 |-> o2, failAt |-> 0] :
      t \in TagChoices, o1 \in LoadOutputs, o2 \in PushOutputs }
  \cup
  UNION { { [tags |-> t, out1 |-> CHOOSE o \in LoadOutputs : find_sha256(o) # << >>,
             out2 |-> CHOOSE o \in PushOutputs : find_sha256(o) # << >>, failAt |-> f] :
              f \in 1..FullCmdCount(t) } : t \in TagChoices }

\* (variant: the extra tags get no entry)
TagMapVersionOnly(image, version, sha256, local_only, tags) ==
  << docker_tag(image, version) \o <<" ">> \o sha256 >>

\* lines 236-245: the version tag, then one entry per extra tag
TagMap(image, version, sha256, local_only, tags) ==
  << docker_tag(image, version) \o <<" ">> \o sha256 >>
    \o (IF local_only THEN << >>
        ELSE [i \in 1..Len(tags) |-> docker_tag(image, tags[i]) \o <<" ">> \o sha256])

\* lines 173-262: what build_image returns (ok), or that it raised
build_image(image, version, contexts, local_only, uniq_id, env) ==
  LET nbuild == IF local_only THEN 1 ELSE 2
      ncmds  == IF local_only THEN 1 ELSE FullCmdCount(env.tags)
      sha256 == find_sha256(BuildOutput(image, version, contexts, local_only,
                                        uniq_id, env.out1, env.out2))
      raised == [ok |-> FALSE, tag_map |-> << >>, uniq |-> << >>]
  IN  IF env.failAt \in 1..nbuild THEN raised
      ELSE IF sha256 = << >> THEN raised
      ELSE IF env.failAt \in (nbuild + 1)..ncmds THEN raised
      ELSE [ok |-> TRUE,
            tag_map |-> TagMap(image, version, sha256, local_only, env.tags),
            uniq |-> docker_image(image) \o <<":">> \o uniq_id]

\* the full build the scheduler runs for each assignment
build_and_upload_image(image, version, contexts, uniq_id, env) ==
  build_image(image, version, contexts, FALSE, uniq_id, env)

\* make_id(): a fresh identifier for each build
IdAtoms == << "u1", "u2", "u3" >>
make_id(n) == << IdAtoms[n] >>

----------------------------------------------------------------------------
(* main.py: the scheduler *)

\* --parallel defaults to 2
DefaultParallel == 2

VARIABLES
  images_,          \* find_images(): the set of (image, version) found
  priority_builds,  \* conf.priority_builds
  parallel,         \* --parallel
  pc,               \* where _build_all_images is
  sorted_images,    \* sort_images(images)
  idx,              \* sequential mode: the position of the loop of line 79
  prio,             \* pool mode: the priority the loop of line 97 is at
  contexts,         \* the accumulated contexts
  uniq_ids,         \* the accumulated unique-id records
  owners,           \* for each element of contexts, the assignment it is from
  tasks,            \* for each assignment, its build
  next_id,          \* the number of builds started (make_id calls)
  invoked,          \* whether an external invocation has been issued
  manifest_data,    \* manifest_data.txt
  uniq_id_data,     \* uniq_ids.txt
  call,             \* one call of build_image looked at on its own: its arguments
  ret,              \* ... and how far it has got
  merge_runs        \* the runs of merge_manifests so far

sched_vars == << images_, priority_builds, parallel, pc, sorted_images, idx, prio,
                 contexts, uniq_ids, owners, tasks, next_id, invoked >>
sched_vars_but_pc == << images_, priority_builds, parallel, sorted_images, idx, prio,
                        contexts, uniq_ids, owners, tasks, next_id, invoked >>
file_vars  == << manifest_data, uniq_id_data >>
exec_vars  == << call, ret >>
merge_vars == << merge_runs >>

vars == << sched_vars, file_vars, exec_vars, merge_vars >>

\* the two files as an earlier run left them
OldManifestData == << <<"u", "/", "old", ":", "1", " ", "sha256:", "000">>, << >> >>
OldUniqIdData   == << <<"u", "/", "old", ":", "u0">>, << >> >>

\* a build that has not been handed anything yet
NoTask == [status |-> "pending", contexts |-> << >>, owners |-> << >>,
           uniq_id |-> << >>, tag_map |-> << >>, uniq |-> << >>]

\* the configurations the scheduler is run with: none; one identifier first;
\* a group first; two single entries (three priorities); an empty group (a
\* priority without assignment); an identifier named twice; all in one group.
\* With a discovered set that lacks one of the identifiers named, each of
\* them is a configuration that references an unknown identifier.
RunConfigs ==
  LET a1 == Ident(<<"a">>, <<"1">>)
      a2 == Ident(<<"a">>, <<"2">>)
      b1 == Ident(<<"a", "-", "b">>, <<"1">>)
  IN  { << >>,
        << StrEntry(a1) >>,
        << ListEntry(<< a1, b1 >>) >>,
        << StrEntry(b1), StrEntry(a1) >>,
        << ListEntry(<< >>), StrEntry(a2) >>,
        << StrEntry(a1), StrEntry(a1) >>,
        << ListEntry(<< a2, a1, b1 >>) >> }

\* no call of build_image is looked at on its own
NoCall == [image |-> << >>, version |-> << >>, contexts |-> << >>,
           local_only |-> FALSE, uniq_id |-> << >>,
           env |-> [tags |-> << >>, out1 |-> Text(<< >>), out2 |-> Text(<< >>),
                    failAt |-> 0]]
NoRet == [pc |-> "none", issued |-> << >>, sha256 |-> << >>, tag_map |-> << >>,
          uniq |-> << >>, error |-> << >>, logged |-> << >>]

\* the locals of _build_all_images before its first line
Fresh ==
  /\ pc = "start"
  /\ sorted_images = << >>
  /\ idx = 0
  /\ prio = 0
  /\ contexts = << >>
  /\ uniq_ids = << >>
  /\ owners = << >>
  /\ tasks = << >>
  /\ next_id = 0
  /\ invoked = FALSE

\* the state _build_all_images starts in
Start ==
  /\ images_ \in SUBSET Universe
  /\ parallel \in {1, DefaultParallel}
  /\ Fresh
  /\ manifest_data = OldManifestData
  /\ uniq_id_data = OldUniqIdData
  /\ call = NoCall
  /\ ret = NoRet
  /\ merge_runs = << >>

Init == priority_builds \in RunConfigs /\ Start

\* every configuration within the bounds, for sort_images alone
InitSort == priority_builds \in Configs(MaxConfigLen, MaxRefs) /\ Start

Assignments == 1..Len(sorted_images)
Tier(p) == { i \in Assignments : sorted_images[i].priority = p }

\* line 96
RECURSIVE MaxOf(_)
MaxOf(S) ==
  LET x == CHOOSE y \in S : TRUE
  IN  IF S = {x} THEN x
      ELSE LET m == MaxOf(S \ {x}) IN IF x > m THEN x ELSE m
max_prio == MaxOf({ sorted_images[i].priority : i \in Assignments })

\* lines 52-57: "\n".join(lines) + "\n"
FileText(lines) == TextCat(IF lines = << >> THEN Text(<< >>) ELSE lines, linesep)

\* lines 53-54: the first of the two files is written ...
write_manifest_data ==
  /\ manifest_data' = FileText(contexts)
  /\ uniq_id_data' = uniq_id_data

\* ... lines 56-57: and then the second
write_uniq_ids ==
  /\ uniq_id_data' = FileText(uniq_ids)
  /\ manifest_data' = manifest_data

\* lines 70-75 (and line 96, where max() of no assignment at all raises)
Resolve ==
  /\ pc = "start"
  /\ LET sorted == sort_images(images_, priority_builds)
     IN  IF sorted.err
         THEN /\ pc' = "config_error"
              /\ UNCHANGED << sorted_images, tasks, idx, prio >>
         ELSE /\ sorted_images' = sorted.result
              /\ tasks' = [i \in 1..Len(sorted.result) |-> NoTask]
              /\ IF parallel = 1
                 THEN pc' = "seq" /\ idx' = 1 /\ prio' = prio
                 ELSE /\ pc' = IF sorted.result = << >> THEN "failed" ELSE "tier"
                      /\ prio' = 1
                      /\ idx' = idx
  /\ UNCHANGED << exec_vars, merge_vars >>
  /\ UNCHANGED << images_, priority_builds, parallel, contexts, uniq_ids, owners,
                  next_id, invoked, manifest_data, uniq_id_data >>

\* a build starts: it is handed the context list and draws its identifier
Started(i) == tasks[i].uniq_id # << >>
StartBuild(i, ctxs, own) ==
  /\ tasks' = [tasks EXCEPT ![i] = [@ EXCEPT !.status = "running", !.contexts = ctxs,
                                             !.owners = own,
                                             !.uniq_id = make_id(next_id + 1)]]
  /\ next_id' = next_id + 1

\* a build ends: build_and_upload_image returns or raises
Outcome(i, env) ==
  build_and_upload_image(sorted_images[i].image[1], sorted_images[i].image[2],
                         tasks[i].contexts, tasks[i].uniq_id, env)
EndBuild(i, r) ==
  /\ tasks' = [tasks EXCEPT ![i] = [@ EXCEPT !.status = IF r.ok THEN "done" ELSE "failed",
                                             !.tag_map = r.tag_map, !.uniq = r.uniq]]
  /\ invoked' = TRUE

\* list += str: every character of the string becomes an element (here every
\* atom, the finest grain the model has)
Chars(s) == [k \in 1..Len(s) |-> << s[k] >>]

\* lines 79-82: the next assignment of the sequential loop
SeqStart ==
  /\ pc = "seq"
  /\ idx <= Len(sorted_images)
  /\ StartBuild(idx, contexts, owners)
  /\ pc' = "building"
  /\ UNCHANGED << exec_vars, merge_vars >>
  /\ UNCHANGED << images_, priority_builds, parallel, sorted_images, idx, prio,
                  contexts, uniq_ids, owners, invoked, manifest_data, uniq_id_data >>

\* lines 80-84: its build returns, or raises and ends the run
SeqFinish ==
  /\ pc = "building"
  /\ \E env \in Envs :
       LET r == Outcome(idx, env)
       IN  /\ EndBuild(idx, r)
           /\ IF r.ok
              THEN /\ contexts' = contexts \o r.tag_map
                   /\ owners' = owners \o [k \in 1..Len(r.tag_map) |-> idx]
                   /\ uniq_ids' = uniq_ids \o Chars(r.uniq)
                   /\ idx' = idx + 1
                   /\ pc' = "seq"
              ELSE /\ pc' = "failed"
                   /\ UNCHANGED << contexts, owners, uniq_ids, idx >>
  /\ UNCHANGED << exec_vars, merge_vars >>
  /\ UNCHANGED << images_, priority_builds, parallel, sorted_images, prio, next_id,
                  manifest_data, uniq_id_data >>

\* line 121 after the sequential loop: write_manifest_information is entered
SeqWrite ==
  /\ pc = "seq"
  /\ idx > Len(sorted_images)
  /\ write_manifest_data
  /\ pc' = "writing"
  /\ UNCHANGED << exec_vars, merge_vars >>
  /\ UNCHANGED << images_, priority_builds, parallel, sorted_images, idx, prio,
                  contexts, uniq_ids, owners, tasks, next_id, invoked >>

\* KeyboardInterrupt in sequential mode: nothing catches it
SeqInterrupt ==
  /\ pc \in {"seq", "building"}
  /\ pc' = "interrupted"
  /\ tasks' = [i \in Assignments |->
                 IF tasks[i].status = "running"
                 THEN [tasks[i] EXCEPT !.status = "terminated"] ELSE tasks[i]]
  /\ UNCHANGED << exec_vars, merge_vars >>
  /\ UNCHANGED << images_, priority_builds, parallel, sorted_images, idx, prio,
                  contexts, uniq_ids, owners, next_id, invoked,
                  manifest_data, uniq_id_data >>


\* lines 97-110 and 32-35: the assignments of the next priority go to the pool,
\* each with the context list as it stands
Dispatch ==
  /\ pc = "tier"
  /\ prio <= max_prio
  /\ tasks' = [i \in Assignments |->
                 IF i \in Tier(prio)
                 THEN [tasks[i] EXCEPT !.status = "queued", !.contexts = contexts,
                                       !.owners = owners]
                 ELSE tasks[i]]
  /\ pc' = "poll"
  /\ UNCHANGED << exec_vars, merge_vars >>
  /\ UNCHANGED << images_, priority_builds, parallel, sorted_images, idx, prio,
                  contexts, uniq_ids, owners, next_id, invoked,
                  manifest_data, uniq_id_data >>

\* a free worker of the pool takes the first task of the queue.  (The tiers
\* modelled hold at most 4 * parallel tasks, for which starmap_async makes
\* chunks of one task.)
WorkerStart(i) ==
  /\ pc = "poll"
  /\ tasks[i].status = "queued"
  /\ \A j \in Assignments : tasks[j].status = "queued" => i <= j
  /\ Cardinality({ j \in Assignments : tasks[j].status = "running" }) < parallel
  /\ StartBuild(i, tasks[i].contexts, tasks[i].owners)
  /\ UNCHANGED << exec_vars, merge_vars >>
  /\ UNCHANGED << images_, priority_builds, parallel, pc, sorted_images, idx, prio,
                  contexts, uniq_ids, owners, invoked, manifest_data, uniq_id_data >>

\* a worker's build returns or raises
WorkerFinish(i) ==
  /\ pc = "poll"
  /\ tasks[i].status = "running"
  /\ \E env \in Envs : EndBuild(i, Outcome(i, env))
  /\ UNCHANGED << exec_vars, merge_vars >>
  /\ UNCHANGED << images_, priority_builds, parallel, pc, sorted_images, idx, prio,
                  contexts, uniq_ids, owners, next_id, manifest_data, uniq_id_data >>

\* (variant: the result is taken as soon as one task has ended)
ResultReadyAny(p) ==
  Tier(p) = {} \/ \E i \in Tier(p) : tasks[i].status \in {"done", "failed"}

\* line 40: res.get() returns or raises once every task of the map has ended,
\* and times out until then
ResultReady(p) == \A i \in Tier(p) : tasks[i].status \in {"done", "failed"}

\* (variant: the exception of a task is dropped)
TierFailedNever(p) == FALSE

\* line 40: res.get() re-raises the exception of a task
TierFailed(p) == \E i \in Tier(p) : tasks[i].status = "failed"

\* (variant: the results of the tasks are taken last task first)
RECURSIVE CollectedReversed(_, _)
CollectedReversed(p, i) ==
  IF i > Len(sorted_images) THEN [new_contexts |-> << >>, new_owners |-> << >>,
                                  uniq_ids |-> << >>]
  ELSE LET rest == CollectedReversed(p, i + 1)
       IN  IF i \in Tier(p)
           THEN [new_contexts |-> rest.new_contexts \o tasks[i].tag_map,
                 new_owners |-> rest.new_owners \o [k \in 1..Len(tasks[i].tag_map) |-> i],
                 uniq_ids |-> rest.uniq_ids \o << tasks[i].uniq >>]
           ELSE rest

\* lines 41-46: the results of the tasks, in the order of the tasks
RECURSIVE Collected(_, _)
Collected(p, i) ==
  IF i > Len(sorted_images) THEN [new_contexts |-> << >>, new_owners |-> << >>,
                                  uniq_ids |-> << >>]
  ELSE LET rest == Collected(p, i + 1)
       IN  IF i \in Tier(p)
           THEN [new_contexts |-> tasks[i].tag_map \o rest.new_contexts,
                 new_owners |-> [k \in 1..Len(tasks[i].tag_map) |-> i] \o rest.new_owners,
                 uniq_ids |-> << tasks[i].uniq >> \o rest.uniq_ids]
           ELSE rest

\* lines 37-49 and 110-112: the poll that finds the tier ended, with the
\* collection of the results that follows it
PollReady ==
  /\ pc = "poll"
  /\ ResultReady(prio)
  /\ IF TierFailed(prio)
     THEN /\ pc' = "failed"
          /\ UNCHANGED << contexts, owners, uniq_ids, prio >>
     ELSE LET got == Collected(prio, 1)
          IN  /\ contexts' = contexts \o got.new_contexts
              /\ owners' = owners \o got.new_owners
              /\ uniq_ids' = uniq_ids \o got.uniq_ids
              /\ prio' = prio + 1
              /\ pc' = "tier"
  /\ UNCHANGED << exec_vars, merge_vars >>
  /\ UNCHANGED << images_, priority_builds, parallel, sorted_images, idx, tasks,
                  next_id, invoked, manifest_data, uniq_id_data >>

\* (variant: the interrupt ends the workers, and the loop goes on with the
\* results of the tasks that had ended)
PoolInterruptSwallowed ==
  /\ pc = "poll"
  /\ tasks' = [i \in Assignments |->
                 IF tasks[i].status \in {"queued", "running"}
                 THEN [tasks[i] EXCEPT !.status = "terminated"] ELSE tasks[i]]
  /\ contexts' = contexts \o Collected(prio, 1).new_contexts
  /\ owners' = owners \o Collected(prio, 1).new_owners
  /\ uniq_ids' = uniq_ids \o Collected(prio, 1).uniq_ids
  /\ prio' = prio + 1
  /\ pc' = "tier"
  /\ UNCHANGED << exec_vars, merge_vars >>
  /\ UNCHANGED << images_, priority_builds, parallel, sorted_images, idx,
                  next_id, invoked, manifest_data, uniq_id_data >>

\* lines 113-116 (and Pool.__exit__): KeyboardInterrupt in the driver ends the
\* workers and is raised again
PoolInterrupt ==
  /\ pc \in {"tier", "poll"}
  /\ pc' = "interrupted"
  /\ tasks' = [i \in Assignments |->
                 IF tasks[i].status \in {"queued", "running"}
                 THEN [tasks[i] EXCEPT !.status = "terminated"] ELSE tasks[i]]
  /\ UNCHANGED << exec_vars, merge_vars >>
  /\ UNCHANGED << images_, priority_builds, parallel, sorted_images, idx, prio,
                  contexts, uniq_ids, owners, next_id, invoked,
                  manifest_data, uniq_id_data >>

\* lines 118-121 after the last priority: write_manifest_information is entered
PoolWrite ==
  /\ pc = "tier"
  /\ prio > max_prio
  /\ write_manifest_data
  /\ pc' = "writing"
  /\ UNCHANGED << exec_vars, merge_vars >>
  /\ UNCHANGED << images_, priority_builds, parallel, sorted_images, idx, prio,
                  contexts, uniq_ids, owners, tasks, next_id, invoked >>

\* lines 56-57: write_manifest_information goes on to uniq_ids.txt and the
\* run ends
WriteUniqIds ==
  /\ pc = "writing"
  /\ write_uniq_ids
  /\ pc' = "done"
  /\ UNCHANGED << exec_vars, merge_vars >>
  /\ UNCHANGED sched_vars_but_pc

\* KeyboardInterrupt between the two write_text calls: by then the pool is
\* closed and the default handler is back (lines 118-121), and in sequential
\* mode it was never replaced
WriteInterrupt ==
  /\ pc = "writing"
  /\ pc' = "write_interrupted"
  /\ UNCHANGED << exec_vars, merge_vars, file_vars >>
  /\ UNCHANGED sched_vars_but_pc

Next ==
  \/ Resolve
  \/ SeqStart
  \/ SeqFinish
  \/ SeqWrite
  \/ SeqInterrupt
  \/ Dispatch
  \/ \E i \in Assignments : WorkerStart(i)
  \/ \E i \in Assignments : WorkerFinish(i)
  \/ PollReady
  \/ PoolInterrupt
  \/ PoolWrite
  \/ WriteUniqIds
  \/ WriteInterrupt

Spec == Init /\ [][Next]_vars

\* sort_images alone, applied to every discovered set and configuration
SpecSort == InitSort /\ [][Resolve]_vars


----------------------------------------------------------------------------
(* images.py: one call of build_image, step by step *)

\* the captured output holds at most MaxLines lines of the build tool
MaxLines == 2
\* config.yaml names at most MaxTags extra tags
MaxTags == 2

\* lines the build tool prints: the two export lines, a marker without a
\* digest, a digest without a marker, a marker with two digests, neither
OutputLines ==
  { <<"#12", " ", "writing", " ", "image", " ", "sha256:", "aaa", " ", "done">>,
    <<"#9", " ", "exporting", " ", "manifest", " ", "sha256:", "bbb", " ", "done">>,
    <<"#8", " ", "writing", " ", "image", " ", "done">>,
    <<"#3", " ", "resolve", " ", "sha256:", "ccc">>,
    <<"#9", " ", "exporting", " ", "manifest", " ", "list", " ", "sha256:", "ddd",
      " ", "sha256:", "eee">>,
    <<"#1", " ", "load", " ", "build", " ", "definition">> }

\* the texts of at most n such lines, each ended by a newline
RECURSIVE OutputTexts(_)
OutputTexts(n) ==
  IF n = 0 THEN { Text(<< >>) }
  ELSE OutputTexts(n - 1)
         \cup { << l >> \o t : l \in OutputLines, t \in OutputTexts(n - 1) }

\* the lists of at most n extra tags
RECURSIVE TagLists(_)
TagLists(n) ==
  IF n = 0 THEN { << >> }
  ELSE TagLists(n - 1)
         \cup { << t >> \o l : t \in { <<"latest">>, <<"v2">> }, l \in TagLists(n - 1) }

\* the context lists a call is handed
CallContexts ==
  { << >>, << <<"u", "/", "a", "-", "b", ":", "1", " ", "sha256:", "ccc">> >> }

\* The calls looked at: one image with every output text, and every image
\* with every list of extra tags and every invocation failing.
Calls ==
  { [image |-> <<"a">>, version |-> <<"1">>, contexts |-> << >>, local_only |-> lo,
     uniq_id |-> make_id(1),
     env |-> [tags |-> << >>, out1 |-> o1, out2 |-> o2, failAt |-> 0]] :
       lo \in BOOLEAN, o1 \in OutputTexts(MaxLines), o2 \in PushOutputs }
  \cup
  UNION { { [image |-> d[1], version |-> d[2], contexts |-> c, local_only |-> lo,
             uniq_id |-> make_id(1),
             env |-> [tags |-> t, out1 |-> o1, out2 |-> o2, failAt |-> f]] :
               d \in Universe, c \in CallContexts, o1 \in LoadOutputs,
               o2 \in PushOutputs, f \in 0..(IF lo THEN 1 ELSE FullCmdCount(t)) } :
          lo \in BOOLEAN, t \in TagLists(MaxTags) }

InitBuild ==
  /\ images_ = {}
  /\ priority_builds = << >>
  /\ parallel = 1
  /\ Fresh
  /\ manifest_data = OldManifestData
  /\ uniq_id_data = OldUniqIdData
  /\ merge_runs = << >>
  /\ call \in Calls
  /\ ret = [NoRet EXCEPT !.pc = "build"]

CallCmds ==
  BuildCmds(call.image, call.version, call.contexts, call.local_only, call.uniq_id,
            call.env.tags)
CallOutput ==
  BuildOutput(call.image, call.version, call.contexts, call.local_only, call.uniq_id,
              call.env.out1, call.env.out2)

\* what run() raises when the command exits with an error
RunError == << "command", " ", "failed" >>

\* run(cmd) of the next external invocation: it is issued, and either returns
\* its output or raises
Run(after) ==
  LET k == Len(ret.issued) + 1
  IN  ret' = [ret EXCEPT !.issued = Append(@, CallCmds[k]),
                         !.pc = IF call.env.failAt = k THEN "raised" ELSE after,
                         !.error = IF call.env.failAt = k THEN RunError ELSE @]

\* lines 189-217: the build invocations (one with local_only, else two)
ExecBuildCmd ==
  /\ ret.pc = "build"
  /\ Run(IF Len(ret.issued) + 1 = (IF call.local_only THEN 1 ELSE 2)
         THEN "scan" ELSE "build")
  /\ UNCHANGED << sched_vars, file_vars, merge_vars, call >>

\* line 234
ShaError == << "Couldn't", " ", "find", " ", "sha256", " ", "tag", " ", "in", " ", "output" >>

\* (variant: without a digest the build goes on to the tags)
ExecFindShaLenient ==
  /\ ret.pc = "scan"
  /\ ret' = [ret EXCEPT !.sha256 = find_sha256(CallOutput),
                        !.pc = IF call.local_only THEN "return" ELSE "tag"]
  /\ UNCHANGED << sched_vars, file_vars, merge_vars, call >>

\* lines 221-234: the digest is looked for; without one the output is logged
\* as an error and the exception of line 234 is raised
ExecFindSha ==
  /\ ret.pc = "scan"
  /\ LET sha256 == find_sha256(CallOutput)
     IN  IF sha256 = << >>
         THEN ret' = [ret EXCEPT !.logged = Append(@, CallOutput),
                                 !.error = ShaError,
                                 !.pc = "raised"]
         ELSE ret' = [ret EXCEPT !.sha256 = sha256,
                                 !.pc = IF call.local_only THEN "return" ELSE "tag"]
  /\ UNCHANGED << sched_vars, file_vars, merge_vars, call >>

\* lines 238-253: the tag, push and remove invocations, one after the other
ExecTagCmd ==
  /\ ret.pc = "tag"
  /\ Run(IF Len(ret.issued) + 1 = Len(CallCmds) THEN "return" ELSE "tag")
  /\ UNCHANGED << sched_vars, file_vars, merge_vars, call >>

\* line 262
ExecReturn ==
  /\ ret.pc = "return"
  /\ ret' = [ret EXCEPT !.tag_map = TagMap(call.image, call.version, ret.sha256,
                                           call.local_only, call.env.tags),
                        !.uniq = docker_image(call.image) \o <<":">> \o call.uniq_id,
                        !.pc = "returned"]
  /\ UNCHANGED << sched_vars, file_vars, merge_vars, call >>

NextBuild ==
  \/ ExecBuildCmd
  \/ ExecFindSha
  \/ ExecTagCmd
  \/ ExecReturn

\* build_image alone, applied to every call
SpecBuild == InitBuild /\ [][NextBuild]_vars

\* the steps end as build_image, taken as one function, says
ExecAgrees ==
  ret.pc \in {"returned", "raised"} =>
    build_image(call.image, call.version, call.contexts, call.local_only,
                call.uniq_id, call.env)
      = [ok |-> ret.pc = "returned", tag_map |-> ret.tag_map, uniq |-> ret.uniq]


----------------------------------------------------------------------------
(* main.py: merge_manifests *)

\* manifest_data.txt holds at most MaxContexts contexts
MaxContexts == 3
\* merge_manifests is run at most MaxRuns times over the same files
MaxRuns == 2

\* lines 60-66: the lines of a file that are not empty
ReadLines(text) == SelectSeq(splitlines(text), LAMBDA line : line # << >>)

\* images.py, lines 148-153
inspect_manifest(image, digest) ==
  LET base_image == SplitOnce(image, ":")[1]
  IN  << <<"docker">>, <<"manifest">>, <<"inspect">>, base_image \o <<"@">> \o digest >>

\* images.py, lines 156-163
create_manifest(image, digests) ==
  LET base_image == SplitOnce(image, ":")[1]
  IN  << <<"docker">>, <<"buildx">>, <<"imagetools">>, <<"create">>, <<"-t">>, image >>
        \o [i \in 1..Len(digests) |-> base_image \o <<"@">> \o digests[i]]

\* (variant: the contexts are grouped by what stands before the ":")
ContextKeyBase(context) == SplitOnce(SplitOnce(context, " ")[1], ":")[1]

\* line 145: the key a context is grouped under
ContextKey(context) == SplitOnce(context, " ")[1]

\* lines 144-149: the keys of image_contexts, in the order a dict keeps them
RECURSIVE GroupKeys(_)
GroupKeys(ctxs) ==
  IF ctxs = << >> THEN << >>
  ELSE LET before == GroupKeys(SubSeq(ctxs, 1, Len(ctxs) - 1))
           key    == ContextKey(ctxs[Len(ctxs)])
       IN  IF InList(key, before) THEN before ELSE Append(before, key)

\* image_contexts[image]
RECURSIVE GroupDigests(_, _)
GroupDigests(ctxs, key) ==
  IF ctxs = << >> THEN << >>
  ELSE (IF ContextKey(Head(ctxs)) = key THEN << SplitOnce(Head(ctxs), " ")[2] >> ELSE << >>)
         \o GroupDigests(Tail(ctxs), key)

\* lines 155-156: the removals, up to a record that does not split into
\* (image, tag), on which the call of remove_image_tag is a TypeError
RECURSIVE Removals(_)
Removals(ids) ==
  IF ids = << >> THEN [cmds |-> << >>, raises |-> FALSE]
  ELSE LET parts == Split(Head(ids), ":")
       IN  IF Len(parts) # 2 THEN [cmds |-> << >>, raises |-> TRUE]
           ELSE LET rest == Removals(Tail(ids))
                IN  [cmds |-> << remove_image_tag(parts[1], parts[2]) >> \o rest.cmds,
                     raises |-> rest.raises]

\* lines 141-156: every external invocation of merge_manifests, in order, if
\* none of them fails, and whether the command raises by itself after them
MergePlan ==
  LET ctxs == ReadLines(manifest_data)
      ids  == ReadLines(uniq_id_data)
      keys == GroupKeys(ctxs)
      rm   == Removals(ids)
  IN  [cmds |-> [i \in 1..Len(ctxs) |->
                   inspect_manifest(ContextKey(ctxs[i]), SplitOnce(ctxs[i], " ")[2])]
                \o [i \in 1..Len(keys) |-> create_manifest(keys[i], GroupDigests(ctxs, keys[i]))]
                \o rm.cmds,
       raises |-> rm.raises]

\* the contexts builds leave in manifest_data.txt: two tags of image "a"
\* (one of them from two builds), and image "a-b"
PersistedContexts ==
  { <<"u", "/", "a", ":", "1", " ", "sha256:", "aaa">>,
    <<"u", "/", "a", ":", "1", " ", "sha256:", "bbb">>,
    <<"u", "/", "a", ":", "latest", " ", "sha256:", "aaa">>,
    <<"u", "/", "a", "-", "b", ":", "1", " ", "sha256:", "ccc">> }

\* the lists of at most n of them
RECURSIVE ContextLists(_)
ContextLists(n) ==
  IF n = 0 THEN { << >> }
  ELSE ContextLists(n - 1)
         \cup { << c >> \o l : c \in PersistedContexts, l \in ContextLists(n - 1) }

\* the records builds leave in uniq_ids.txt: none, of one build, of two, and
\* what the sequential loop makes of the record of one build
PersistedUniqIds ==
  LET a == docker_image(<<"a">>) \o <<":">> \o make_id(1)
      b == docker_image(<<"a", "-", "b">>) \o <<":">> \o make_id(2)
  IN  { << >>, << a >>, << a, b >>, Chars(a) }

InitMerge ==
  /\ images_ = {}
  /\ priority_builds = << >>
  /\ parallel = 1
  /\ Fresh
  /\ \E l \in ContextLists(MaxContexts) : manifest_data = FileText(l)
  /\ \E l \in PersistedUniqIds : uniq_id_data = FileText(l)
  /\ call = NoCall
  /\ ret = NoRet
  /\ merge_runs = << >>

\* the invocations on which run() is let raise: the first manifest inspect,
\* the first manifest create and the first removal (0: none raises)
FailPoints(cmds) ==
  {0} \cup { k \in 1..Len(cmds) : \A j \in 1..(k - 1) : cmds[j][2] # cmds[k][2] }

\* (variant: a run that got to the manifests leaves manifest_data.txt empty)
MergeManifestsConsuming ==
  /\ Len(merge_runs) < MaxRuns
  /\ LET plan == MergePlan
     IN  \E f \in FailPoints(plan.cmds) :
           /\ merge_runs' = Append(merge_runs,
                [issued |-> IF f = 0 THEN plan.cmds ELSE SubSeq(plan.cmds, 1, f),
                 failed |-> f,
                 raised |-> f # 0 \/ plan.raises])
           /\ manifest_data' = IF f = 0 THEN FileText(<< >>) ELSE manifest_data
  /\ UNCHANGED << sched_vars, uniq_id_data, exec_vars >>

\* One run of merge_manifests.  With failed = 0 no invocation fails; else
\* run() raises on invocation number failed, and the invocations before it,
\* and itself, were issued.
MergeManifests ==
  /\ Len(merge_runs) < MaxRuns
  /\ LET plan == MergePlan
     IN  \E f \in FailPoints(plan.cmds) :
           merge_runs' = Append(merge_runs,
             [issued |-> IF f = 0 THEN plan.cmds ELSE SubSeq(plan.cmds, 1, f),
              failed |-> f,
              raised |-> f # 0 \/ plan.raises])
  /\ UNCHANGED << sched_vars, file_vars, exec_vars >>

NextMerge == MergeManifests

\* merge_manifests alone, over every pair of files
SpecMerge == InitMerge /\ [][NextMerge]_vars


----------------------------------------------------------------------------
(* Properties of sort_images *)

\* sort_images has returned
Resolved == pc \notin {"start", "config_error"}

\* the "image/version" identifier of an assignment
IdOf(i) == Ident(sorted_images[i].image[1], sorted_images[i].image[2])

\* the places of the configuration: entry p, identifier k of it
Places == UNION { { << p, k >> : k \in 1..Len(priority_builds[p].ids) } :
                  p \in 1..Len(priority_builds) }
NamedAt(pl) == priority_builds[pl[1]].ids[pl[2]]
Named == { NamedAt(pl) : pl \in Places }

\* how many identifiers the entries before entry p name
RECURSIVE NamedBefore(_)
NamedBefore(p) ==
  IF p <= 1 THEN 0 ELSE NamedBefore(p - 1) + Len(priority_builds[p - 1].ids)

\* the priority of the identifiers no entry names
AutoTier == Len(priority_builds) + 1

\* C6: when sort_images returns, every discovered image/version is the image
\* of exactly one assignment of the result, and no identifier the
\* configuration names has the auto-assigned (last) priority.
C6_ExactlyOneTier ==
  Resolved =>
    /\ \A d \in images_ :
         Cardinality({ i \in Assignments : sorted_images[i].image = d }) = 1
    /\ \A i \in Assignments :
         IdOf(i) \in Named => sorted_images[i].priority # AutoTier

\* a group of two is configured and an identifier is left to the last tier
C6_Witness ==
  /\ Resolved
  /\ \E p \in 1..Len(priority_builds) : Len(priority_builds[p].ids) = 2
  /\ \E i \in Assignments : sorted_images[i].priority = AutoTier

\* C7: the identifiers of the configuration's entry number p have priority p,
\* those of a list entry all the same one, and the result starts with the
\* configured identifiers in the order of the configuration.
C7_TierIsPosition ==
  Resolved =>
    \A pl \in Places :
      LET n == NamedBefore(pl[1]) + pl[2]
      IN  /\ n \in Assignments
          /\ IdOf(n) = NamedAt(pl)
          /\ sorted_images[n].priority = pl[1]
          /\ \A i \in Assignments :
               IdOf(i) = NamedAt(pl) => sorted_images[i].priority = pl[1]

\* the second entry of the configuration is a group of two
C7_Witness ==
  /\ Resolved
  /\ Len(priority_builds) >= 2
  /\ Len(priority_builds[2].ids) = 2
  /\ ~priority_builds[2].isstr

\* UniverseIds in the order of Python's str comparison: "-" < "/" < "1" < "2"
LexRank(id) ==
  CASE id = Ident(<<"a", "-", "b">>, <<"1">>) -> 1
    [] id = Ident(<<"a">>, <<"1">>) -> 2
    [] id = Ident(<<"a">>, <<"2">>) -> 3

\* C9: the discovered identifiers the configuration does not name have
\* priority (number of entries + 1) and come after all configured ones, in
\* the lexicographic order of their "image/version" strings.
C9_RestLastSorted ==
  Resolved =>
    /\ \A d \in images_ :
         Ident(d[1], d[2]) \notin Named =>
           \E i \in Assignments :
             /\ IdOf(i) = Ident(d[1], d[2])
             /\ i > Cardinality(Places)
             /\ sorted_images[i].priority = AutoTier
    /\ \A i, j \in Assignments :
         Cardinality(Places) < i /\ i < j => LexRank(IdOf(i)) < LexRank(IdOf(j))

\* "a-b/1" and "a/1" are both left over, behind a configured identifier
C9_Witness ==
  /\ Resolved
  /\ Named # {}
  /\ \E i \in Assignments :
       /\ i < Len(sorted_images)
       /\ sorted_images[i].priority = AutoTier
       /\ IdOf(i) = Ident(<<"a", "-", "b">>, <<"1">>)
       /\ IdOf(i + 1) = Ident(<<"a">>, <<"1">>)

\* C10: in a non-empty result every priority from 1 to the highest one is
\* the priority of at least one assignment.
C10_TiersContiguous ==
  (Resolved /\ sorted_images # << >>) =>
    \A t \in 1..max_prio : Tier(t) # {}


----------------------------------------------------------------------------
(* Properties of the scheduler *)

PriorityOf(i) == sorted_images[i].priority

\* C1: in both modes, a build of an assignment has started only if every
\* assignment of every lower priority has completed.
C1_TierOrder ==
  \A i, j \in Assignments :
    (Started(i) /\ PriorityOf(j) < PriorityOf(i)) => tasks[j].status = "done"

\* pool mode, priorities {1: [A, B], 2: [C]}: C has started
C1_Witness ==
  /\ parallel # 1
  /\ \E i \in Assignments :
       /\ Started(i)
       /\ PriorityOf(i) = 2
       /\ Cardinality(Tier(1)) = 2

\* C2: in both modes, the context list handed to a build holds no context
\* produced by an assignment of the same priority.
C2_SiblingIsolation ==
  \A i \in Assignments :
    Started(i) =>
      \A k \in 1..Len(tasks[i].owners) :
        PriorityOf(tasks[i].owners[k]) # PriorityOf(i)

\* the command names the context "ref digest" as --build-context ...ref@digest
PassesContext(cmd, c) ==
  \E k \in 1..(Len(cmd) - 1) :
    /\ cmd[k] = <<"--build-context">>
    /\ \E sp \in 1..Len(c) :
         /\ c[sp] = " "
         /\ LET named == SubSeq(c, 1, sp - 1) \o <<"@">> \o SubSeq(c, sp + 1, Len(c))
                arg   == cmd[k + 1]
            IN  /\ Len(arg) >= Len(named)
                /\ SubSeq(arg, Len(arg) - Len(named) + 1, Len(arg)) = named

\* C3: a build is handed every context that every assignment of a lower
\* priority produced, and both build-tool invocations of the build name each
\* context handed as a --build-context input.
C3_ContextsPassed ==
  \A i \in Assignments :
    Started(i) =>
      /\ \A j \in Assignments :
           PriorityOf(j) < PriorityOf(i) =>
             \A m \in 1..Len(tasks[j].tag_map) :
               \E k \in 1..Len(tasks[i].contexts) :
                 /\ tasks[i].contexts[k] = tasks[j].tag_map[m]
                 /\ tasks[i].owners[k] = j
      /\ \A k \in 1..Len(tasks[i].contexts) :
           /\ PassesContext(FirstBuildCmd(sorted_images[i].image[1],
                                          sorted_images[i].image[2],
                                          tasks[i].contexts, FALSE, tasks[i].uniq_id),
                            tasks[i].contexts[k])
           /\ PassesContext(PushBuildCmd(sorted_images[i].image[1],
                                         sorted_images[i].image[2],
                                         tasks[i].contexts),
                            tasks[i].contexts[k])

\* pool mode: a build of priority 2 is handed the contexts of two builds
C3_Witness ==
  /\ parallel # 1
  /\ \E i \in Assignments :
       /\ Started(i)
       /\ PriorityOf(i) = 2
       /\ Cardinality({ tasks[i].owners[k] : k \in 1..Len(tasks[i].owners) }) = 2

\* C4: once a build has failed the run is waiting for the rest of that tier
\* (pool mode), or has failed, or was interrupted: the loop never moves past
\* the failed build, no assignment of a later priority is started (and in
\* sequential mode no later assignment at all), no result of the failed tier
\* is collected in pool mode, and nothing is written.
C4_FailureIsFatal ==
  \A i \in Assignments :
    tasks[i].status = "failed" =>
      /\ pc \in {"poll", "failed", "interrupted"}
      /\ parallel # 1 => prio = PriorityOf(i)
      /\ parallel = 1 => (pc # "poll" /\ idx = i)
      /\ \A j \in Assignments :
           PriorityOf(j) > PriorityOf(i) => tasks[j].status = "pending"
      /\ \A j \in Assignments :
           (parallel = 1 /\ j > i) => tasks[j].status = "pending"
      /\ \A k \in 1..Len(owners) :
           parallel # 1 => PriorityOf(owners[k]) < PriorityOf(i)
      /\ manifest_data = OldManifestData
      /\ uniq_id_data = OldUniqIdData

\* pool mode: a build failed, its sibling succeeded, a later tier waits
C4_Witness ==
  /\ parallel # 1
  /\ pc = "failed"
  /\ \E i, j, l \in Assignments :
       /\ tasks[i].status = "failed"
       /\ tasks[j].status = "done"
       /\ PriorityOf(j) = PriorityOf(i)
       /\ PriorityOf(l) > PriorityOf(i)

\* C5: in pool mode, once the workers were terminated the run has ended as
\* interrupted; no task is left queued or running, the accumulated contexts
\* hold nothing of the interrupted tier, no assignment of a later priority
\* was started, and nothing is written.
C5_InterruptEndsRun ==
  (parallel # 1 /\ (pc = "interrupted"
                    \/ \E i \in Assignments : tasks[i].status = "terminated")) =>
    /\ pc = "interrupted"
    /\ \A i \in Assignments : tasks[i].status \notin {"queued", "running"}
    /\ \A k \in 1..Len(owners) : PriorityOf(owners[k]) < prio
    /\ \A j \in Assignments : PriorityOf(j) > prio => tasks[j].status = "pending"
    /\ manifest_data = OldManifestData
    /\ uniq_id_data = OldUniqIdData

\* pool mode: interrupted while one build of the tier had ended and another
\* was running, with a later tier waiting
C5_Witness ==
  /\ parallel # 1
  /\ pc = "interrupted"
  /\ \E i, j, l \in Assignments :
       /\ tasks[i].status = "terminated" /\ Started(i)
       /\ tasks[j].status = "done"
       /\ PriorityOf(i) = prio /\ PriorityOf(j) = prio
       /\ PriorityOf(l) > prio

\* the configuration names an identifier that was not discovered
UnknownRef == \E pl \in Places : NamedAt(pl) \notin { Ident(d[1], d[2]) : d \in images_ }

\* C8: with an unknown identifier in the configuration the run gets no
\* further than the error of sort_images, and in that error state no build
\* was started and no external invocation was issued.
C8_ConfigErrorAborts ==
  /\ UnknownRef => pc \in {"start", "config_error"}
  /\ pc = "config_error" =>
       /\ tasks = << >>
       /\ next_id = 0
       /\ ~invoked
       /\ contexts = << >>

\* sort_images has raised on an unknown identifier
C8_Witness == pc = "config_error" /\ UnknownRef

----------------------------------------------------------------------------
(* Properties of build_image *)

\* the space-separated tokens of a line, those that start with "sha256:",
\* and whether the line holds a marker
Tokens(line) == Split(line, " ")
ShaTokens(line) ==
  { k \in 1..Len(Tokens(line)) : Tokens(line)[k] # << >> /\ Tokens(line)[k][1] = "sha256:" }
HasMarker(line) ==
  \/ Contains(line, <<" ", "writing", " ", "image", " ">>)
  \/ Contains(line, <<" ", "exporting", " ", "manifest", " ">>)
FirstShaToken(line) ==
  LET k == CHOOSE x \in ShaTokens(line) : \A y \in ShaTokens(line) : x <= y
  IN  Tokens(line)[k]
MatchLines(lines) ==
  { i \in 1..Len(lines) : HasMarker(lines[i]) /\ ShaTokens(lines[i]) # {} }
Least(S) == CHOOSE x \in S : \A y \in S : x <= y

\* the scan of the output has come to its end
Scanned == ret.sha256 # << >> \/ ret.error = ShaError

\* C11: once the output was scanned, the digest is the first token that
\* starts with "sha256:" of the earliest line that has a marker and such a
\* token, whatever later lines hold; and none is found only if no line has both.
C11_FirstMatchWins ==
  Scanned =>
    LET lines == splitlines(CallOutput)
        match == MatchLines(lines)
    IN  IF match = {}
        THEN ret.sha256 = << >>
        ELSE ret.sha256 = FirstShaToken(lines[Least(match)])

\* a marker line without a digest, then two marker lines with different ones
C11_Witness ==
  /\ Scanned
  /\ LET lines == splitlines(CallOutput)
         match == MatchLines(lines)
     IN  \E h \in 1..Len(lines) : \E i, j \in match :
           /\ h < i /\ i < j
           /\ HasMarker(lines[h]) /\ ShaTokens(lines[h]) = {}
           /\ FirstShaToken(lines[i]) # FirstShaToken(lines[j])
           /\ ret.sha256 = FirstShaToken(lines[i])

\* a text as one string, its pieces put together again with "\n"
Flat(t) == Join(t, "\n")

\* the build invocations went through and the output holds no line with both
\* a marker and a sha256:-token
NoDigestCase ==
  /\ ret.pc \notin {"none", "build", "scan"}
  /\ ~(ret.error = RunError /\ Len(ret.issued) <= (IF call.local_only THEN 1 ELSE 2))
  /\ MatchLines(splitlines(CallOutput)) = {}

\* docker tag, docker push, docker rmi
IsTagCmd(cmd) == cmd[2] \in { <<"tag">>, <<"push">>, <<"rmi">> }
NoTagCmdIssued == \A k \in 1..Len(ret.issued) : ~IsTagCmd(ret.issued[k])

DigestOf(entry) == SplitOnce(entry, " ")[2]
\* ... and the reference before it
RefOf(entry) == SplitOnce(entry, " ")[1]

\* C13: a full build that has returned gives one entry for the version tag
\* followed by one entry per extra tag of the configuration, in that order,
\* and every entry ends in the digest the scan found.
C13_TagMapping ==
  (ret.pc = "returned" /\ ~call.local_only) =>
    /\ Len(ret.tag_map) = Len(call.env.tags) + 1
    /\ RefOf(ret.tag_map[1]) = docker_tag(call.image, call.version)
    /\ \A k \in 1..Len(call.env.tags) :
         RefOf(ret.tag_map[k + 1]) = docker_tag(call.image, call.env.tags[k])
    /\ \A k \in 1..Len(ret.tag_map) :
         /\ DigestOf(ret.tag_map[k]) = ret.sha256
         /\ ret.sha256 # << >>

\* extra tags [latest, v2]: three entries
C13_Witness ==
  /\ ret.pc = "returned"
  /\ ~call.local_only
  /\ call.env.tags = << <<"latest">>, <<"v2">> >>
  /\ Len(ret.tag_map) = 3

----------------------------------------------------------------------------
(* Properties of merge_manifests *)

\* the persisted contexts and records a run of merge_manifests reads
PersistedCtxs == ReadLines(manifest_data)
PersistedIds == ReadLines(uniq_id_data)

\* the manifest-create invocations of a run, in the order issued
CreatesOf(run) == SelectSeq(run.issued, LAMBDA cmd : Len(cmd) >= 4 /\ cmd[4] = <<"create">>)
\* the removals of a run
RemovalsOf(run) == SelectSeq(run.issued, LAMBDA cmd : cmd[2] = <<"rmi">>)
\* what a manifest-create invocation lists behind "-t <target>"
SourcesOf(cmd) == SubSeq(cmd, 7, Len(cmd))

\* the name of a reference without its tag
BaseOf(ref) == SplitOnce(ref, ":")[1]
\* the positions of the contexts of a reference / of a base name
WithRef(ctxs, ref) == { i \in 1..Len(ctxs) : RefOf(ctxs[i]) = ref }
WithBase(ctxs, base) == { i \in 1..Len(ctxs) : BaseOf(RefOf(ctxs[i])) = base }
\* the j-th smallest element of a set of positions
Nth(S, j) == CHOOSE i \in S : Cardinality({ h \in S : h <= i }) = j

PublishedBy(run) ==
  SelectSeq(SubSeq(run.issued, 1, IF run.failed = 0 THEN Len(run.issued) ELSE run.failed - 1),
            LAMBDA cmd : Len(cmd) >= 4 /\ cmd[4] = <<"create">>)

\* ... of the first n runs
RECURSIVE PublishedUpTo(_)
PublishedUpTo(n) ==
  IF n = 0 THEN << >> ELSE PublishedUpTo(n - 1) \o PublishedBy(merge_runs[n])

\* the registry after the first n runs, the last manifest-create of a target
\* winning: the published references, each with what it was made from
Registry(n) ==
  LET all == PublishedUpTo(n)
  IN  { << all[i][6], SourcesOf(all[i]) >> :
          i \in { k \in 1..Len(all) : \A j \in (k + 1)..Len(all) : all[j][6] # all[k][6] } }

\* the run got past its manifest-create invocations
PastCreates(run) == run.failed = 0 \/ run.issued[run.failed][2] = <<"rmi">>

\* C15: of two successive runs of merge_manifests over the same two files
\* that both got past their manifest-create invocations, the later one issues
\* the same manifest-create invocations as the earlier one, and leaves the
\* registry with the same published references made from the same digests.
C15_MergeIdempotent ==
  \A n \in 2..Len(merge_runs) :
    (PastCreates(merge_runs[n - 1]) /\ PastCreates(merge_runs[n])) =>
      /\ CreatesOf(merge_runs[n]) = CreatesOf(merge_runs[n - 1])
      /\ Registry(n) = Registry(n - 1)

\* two runs that publish two references; the first one failed in its cleanup
C15_Witness ==
  /\ Len(merge_runs) >= 2
  /\ merge_runs[1].failed # 0
  /\ PastCreates(merge_runs[1])
  /\ merge_runs[2].failed = 0
  /\ Cardinality(Registry(2)) = 2
  /\ Len(PersistedCtxs) = 3

----------------------------------------------------------------------------
(* Properties of the tag cleanup *)

\* run() raised on a removal of build_image
BuildCleanupFailed ==
  /\ call.env.failAt \in 1..Len(ret.issued)
  /\ ret.issued[call.env.failAt][2] = <<"rmi">>

\* run() raised on a removal of this run of merge_manifests
MergeCleanupFailed(run) == run.failed # 0 /\ run.issued[run.failed][2] = <<"rmi">>

\* C16: a removal on which run() raises does not make build_image raise, and
\* does not make merge_manifests raise or leave out its other removals.
C16_CleanupNotFatal ==
  /\ BuildCleanupFailed => ret.pc # "raised"
  /\ \A n \in 1..Len(merge_runs) :
       MergeCleanupFailed(merge_runs[n]) =>
         /\ ~merge_runs[n].raised
         /\ Len(RemovalsOf(merge_runs[n])) = Len(PersistedIds)

----------------------------------------------------------------------------
(* Properties of a whole run *)

\* the extra tags a finished build was configured with, read off its
\* TagMapping: the tags of the entries after the first
TagsOf(i) ==
  [k \in 1..(Len(tasks[i].tag_map) - 1) |-> SplitOnce(RefOf(tasks[i].tag_map[k + 1]), ":")[2]]

\* the image:tag references a finished build has created (docker tag, the
\* target) or removed (docker rmi)
WrittenRefs(i) ==
  LET cmds == TagCmds(sorted_images[i].image[1], sorted_images[i].image[2],
                      tasks[i].uniq_id, TagsOf(i))
  IN  { cmds[k][4] : k \in { h \in 1..Len(cmds) : cmds[h][2] = <<"tag">> } }
        \cup { cmds[k][3] : k \in { h \in 1..Len(cmds) : cmds[h][2] = <<"rmi">> } }

\* C17: no image:tag reference is created or removed by two builds of a run.
C17_SingleWriter ==
  \A i, j \in Assignments :
    (i # j /\ tasks[i].status = "done" /\ tasks[j].status = "done") =>
      WrittenRefs(i) \cap WrittenRefs(j) = {}

\* C18: once a run has ended without failure, uniq_ids.txt holds as many
\* records as assignments were built, the record of each build is its
\* "<repo>:<unique-id>" and every record is the one of a build, and
\* merge_manifests makes exactly one removal per build out of them.
C18_OneRecordPerBuild ==
  pc = "done" =>
    LET records == ReadLines(uniq_id_data)
    IN  /\ Len(records) = Len(sorted_images)
        /\ \A i \in Assignments : InList(tasks[i].uniq, records)
        /\ \A k \in 1..Len(records) : \E i \in Assignments : records[k] = tasks[i].uniq
        /\ ~Removals(records).raises
        /\ Len(Removals(records).cmds) = Len(sorted_images)

\* the TagMappings of the assignments from position i on, one after the other
RECURSIVE TagMapsFrom(_)
TagMapsFrom(i) ==
  IF i > Len(sorted_images) THEN << >> ELSE tasks[i].tag_map \o TagMapsFrom(i + 1)

\* C19: once a run has ended without failure or interrupt, every assignment
\* was built, each by one build of its own (as many builds were started as
\* there are assignments), and manifest_data.txt holds the TagMappings of the
\* assignments in the order of sort_images, in both modes and whatever the
\* order in which the workers of a tier ended.
C19_ContextsInOrder ==
  pc = "done" =>
    /\ \A i \in Assignments : tasks[i].status = "done"
    /\ next_id = Len(sorted_images)
    /\ \A i, j \in Assignments : i # j => tasks[i].uniq_id # tasks[j].uniq_id
    /\ ReadLines(manifest_data) = TagMapsFrom(1)

\* pool mode: a tier of two assignments whose TagMappings differ, and a
\* later tier
C19_Witness ==
  /\ pc = "done"
  /\ parallel # 1
  /\ \E i, j, l \in Assignments :
       /\ i < j
       /\ PriorityOf(i) = PriorityOf(j)
       /\ PriorityOf(l) > PriorityOf(i)
       /\ Len(tasks[i].tag_map) # Len(tasks[j].tag_map)

\* the run has ended by a build failure, a configuration error or an interrupt
EndedBadly == pc \in {"failed", "config_error", "interrupted", "write_interrupted"}

\* C20: a file differs from what it was before the run only if every
\* assignment of every tier was built and the loop is over, and a run that
\* ended by a build failure, a configuration error or an interrupt has left
\* both files as they were.
C20_WrittenOnlyAtEnd ==
  /\ (manifest_data # OldManifestData \/ uniq_id_data # OldUniqIdData) =>
       /\ \A i \in Assignments : tasks[i].status = "done"
       /\ pc \in {"writing", "done", "write_interrupted"}
  /\ EndedBadly =>
       /\ manifest_data = OldManifestData
       /\ uniq_id_data = OldUniqIdData

=============================================================================
